---- MODULE Spec2Model ----
(***************************************************************************)
(* v-thread: the Initiator (VThread, src/src/MainThread.ts) and the        *)
(* Provider (VThreadable, src/unnamed/part_000) talking over postMessage.  *)
(*                                                                         *)
(* One handle and its worker are modelled.  A macrotask (a message event,  *)
(* a timer) and the synchronous part of a public method are one action     *)
(* each; the continuation after an `await` is an action of its own where    *)
(* other code can run in between.                                          *)
(***************************************************************************)
EXTENDS Naturals, Sequences, FiniteSets

\* ---- bounds of the model ----
\* proxy calls and kills of a run that has only the one or the other
MaxCalls == 2
MaxKills == 2
\* proxy calls and kills of a run that has both
MaxCallsWithKills == 1
MaxKillsWithCalls == 1
MaxPings == 2
MaxConnects == 2
MaxListeners == 2
MaxPCalls == 1
\* calls of VThreadable.onStart by a worker script that registers repeatedly
MaxOnStarts == 2
\* property names read before an invocation, arguments of an invocation
MaxChain == 2
MaxArgs == 2
\* frames of a captured stack beyond its leading frame
MaxFrames == 2
MaxForks == 2            \* handles made by fork()
MaxDisposes == 2         \* calls of dispose() on one handle of onWillTerminate

\* ---- enum WorkerState ----
Loading == 0
Listening == 1
Ready == 2
Killed == 3

Calls == 1..MaxCalls
Kills == 1..MaxKills
Connects == 1..MaxConnects
Lsnrs == 1..MaxListeners
PCalls == 1..MaxPCalls

\* property names, and the values a program passes, returns and marks:
\* two ArrayBuffers, a plain object and a primitive
PropNames == {"f", "g"}
Buffers == {"b1", "b2"}
Values == Buffers \cup {"o", "p"}
\* the explicit lists given to markAsVTransferable
MarkLists == {<<>>, <<"b1">>, <<"b2", "b1">>, <<"o">>}
ArgLists == UNION {[1..m -> Values] : m \in 0..MaxArgs}

VARIABLES
    \* Initiator (VThread instance)
    workerState,        \* this.workerState
    workerInitPromise,  \* this.workerInitPromise: 0 (undefined) or the connect operation it belongs to
    connPc,             \* position of each startWorker executor
    connPromise,        \* state of the promise each startWorker executor settles
    pingNo,             \* number of pings posted by each connect's pingWorker chain
    hostAvailable,      \* typeof this.host === 'object'
    \* proxy calls made on the Initiator's worker proxy
    callPc, callPromise, callIssuedIn, callConn,
    execReplyFor,       \* per call's reply port: the request its reply answers (0: no reply)
    \* kill() invocations
    killPc, killPromise, killGraceful, killConn,
    \* the channel
    inbox,              \* worker.postMessage queue, in posting order
    posted,             \* every message ever posted to the worker (history)
    pingReply, initReply, execReply, termReply,
    \* Provider (VThreadable statics)
    isInit, providerCallback, initStatusResponsePort, connectedProvider,
    parentProxy, booting, factoryCalls, closed, terminated,
    initReplies,        \* number of messages posted on an init response port
    onStartLog,         \* outcome of each call of VThreadable.onStart, in order
    \* will-terminate listeners and the terminate handler
    listeners, termPc, lst,
    dispatched,         \* the last exec message dispatched on a surface, with its outcome
    forked,             \* the handles fork() returned, in order
    disposables,        \* per handle onWillTerminate returned: its calls of dispose()
    \* calls of the Provider on the master proxy
    pcallPc, pcallPromise, pcallReply,
    pcallReplyFor,      \* per master call's reply port: the request its reply answers
    \* one context's proxy and transfer registry
    queuedWorkerFnChain,  \* the proxy's chain buffer
    wiredTransferables,   \* the registry: value -> recorded list (<<>>: no entry)
    postedMsg,            \* the message the last step posted (<<>>: it posted none)
    accessed,             \* property names read on the proxy since the last invocation
    invocation,           \* the last step's invocation as made: arguments, registry before it
    marked,               \* the last step's call of markAsVTransferable and its outcome
    \* reconciliation of an error reply
    thrownErr,            \* the error processMessage threw (<<>>: none yet)
    reconciled            \* the reply and the local Error it was called with

initiatorVars == <<workerState, workerInitPromise, connPc, connPromise, pingNo, hostAvailable>>
callVars == <<callPc, callPromise, callIssuedIn, callConn, execReplyFor>>
killVars == <<killPc, killPromise, killGraceful, killConn>>
netVars == <<inbox, posted, pingReply, initReply, execReply, termReply>>
providerVars == <<isInit, providerCallback, initStatusResponsePort, connectedProvider,
                  parentProxy, booting, factoryCalls, closed, terminated,
                  initReplies, onStartLog>>
termVars == <<listeners, termPc, lst, disposables>>
pcallVars == <<pcallPc, pcallPromise, pcallReply, pcallReplyFor>>
proxyVars == <<queuedWorkerFnChain, wiredTransferables, postedMsg, accessed, invocation,
               marked, thrownErr, reconciled>>
forkVars == <<forked>>
dispatchVars == <<dispatched>>
vars == <<initiatorVars, callVars, killVars, netVars, providerVars, termVars, pcallVars, proxyVars,
          forkVars, dispatchVars>>

\* A message posted with worker.postMessage: its type tag, the operation it
\* belongs to (ping: <<connect, number>>), and the proxy call on whose behalf
\* it was posted (0: none).
Msg(type, id, by) == [type |-> type, id |-> id, by |-> by]

\* ---- utils.processMessage: throws when the reply carries err ----
processMessage(err) == IF err THEN "throw" ELSE "return"

\* `resolve(processMessage(...))` evaluated inside an async executor
\* (generateProxy, startWorker) or inside an onmessage handler (parentProxy):
\* a throw there leaves the promise it was to settle pending.
resolveWith(outcome, promise) ==
    IF outcome = "return" /\ promise = "pending" THEN "resolved" ELSE promise

\* The same expression in the body of an async function (kill): a throw
\* rejects the function's promise.
asyncReturn(outcome) == IF outcome = "return" THEN "resolved" ELSE "rejected"

\* ensureWorkerReady without the await of startWorker
ensureWorkerReadyNoWait(ws) ==
    IF ws = Killed THEN "throw" ELSE "pass"

\* ensureWorkerReady without its first test
ensureWorkerReadyNoKilledCheck(ws) ==
    IF ws # Ready THEN "await" ELSE "pass"

\* ---- ensureWorkerReady, up to its first await ----
ensureWorkerReady(ws) ==
    IF ws = Killed THEN "throw"
    ELSE IF ws # Ready THEN "await"
    ELSE "pass"

\* startWorker without the memo of workerInitPromise
startWorkerAlwaysNew(wip) == TRUE

\* ---- startWorker: whether a new executor is started ----
startWorkerIsNew(wip) == wip = 0

\* the ping reply handler leaving the state as it is
PingReplyStateStays(ws) == ws

\* ---- pingWorker's port1.onmessage: the state it leaves ----
PingReplyState(ws) ==
    IF ws # Killed /\ ws < Listening THEN Listening ELSE ws

\* the init reply handler writing the wrong member of WorkerState
InitReplyStateRestart(ws) == IF ws = Killed THEN ws ELSE Loading

\* ---- startWorker after the init reply: the state it leaves ----
InitReplyState(ws) == IF ws = Killed THEN ws ELSE Ready

\* ---- startWorker's executor, from its start or from the resolution of
\* pingWorker, given the state it reads; `by` is the proxy call that started it
ConnectRun(i, ws, by, fresh) ==
    IF fresh /\ ws < Listening
    THEN /\ connPc' = [connPc EXCEPT ![i] = "ping"]
         /\ connPromise' = connPromise
         /\ pingNo' = [pingNo EXCEPT ![i] = 1]
         /\ inbox' = Append(inbox, Msg("ping", <<i, 1>>, by))
         /\ posted' = posted \cup {Msg("ping", <<i, 1>>, by)}
    ELSE IF ws = Ready
    THEN /\ connPc' = [connPc EXCEPT ![i] = "done"]
         /\ connPromise' = [connPromise EXCEPT ![i] = "resolved"]
         /\ UNCHANGED <<pingNo, inbox, posted>>
    ELSE /\ connPc' = [connPc EXCEPT ![i] = "init"]
         /\ connPromise' = [connPromise EXCEPT ![i] =
                               IF fresh /\ ws = Killed THEN "rejected" ELSE @]
         /\ inbox' = Append(inbox, Msg("init", i, by))
         /\ posted' = posted \cup {Msg("init", i, by)}
         /\ UNCHANGED pingNo

\* ---- startWorker(), called from ensureWorkerReady on behalf of `by` ----
startWorker(by) ==
    IF startWorkerIsNew(workerInitPromise)
    THEN \E i \in Connects :
            /\ connPc[i] = "none"
            /\ \A j \in 1..(i-1) : connPc[j] # "none"
            /\ workerInitPromise' = i
            /\ ConnectRun(i, workerState, by, TRUE)
    ELSE UNCHANGED <<workerInitPromise, connPc, connPromise, pingNo, inbox, posted>>

\* ---- the constructor has run: Loading, first ping posted, timer set ----
Init ==
    /\ workerState = Loading
    /\ workerInitPromise = 1
    /\ connPc = [i \in Connects |-> IF i = 1 THEN "ping" ELSE "none"]
    /\ connPromise = [i \in Connects |-> "pending"]
    /\ pingNo = [i \in Connects |-> IF i = 1 THEN 1 ELSE 0]
    /\ hostAvailable = TRUE   \* the handle was started with a host object
    /\ callPc = [c \in Calls |-> "idle"]
    /\ callPromise = [c \in Calls |-> "pending"]
    /\ callIssuedIn = [c \in Calls |-> Loading]
    /\ callConn = [c \in Calls |-> 0]
    /\ execReplyFor = [c \in Calls |-> 0]
    /\ killPc = [k \in Kills |-> "idle"]
    /\ killPromise = [k \in Kills |-> "pending"]
    /\ killGraceful = [k \in Kills |-> TRUE]
    /\ killConn = [k \in Kills |-> 0]
    /\ inbox = <<Msg("ping", <<1, 1>>, 0)>>
    /\ posted = {Msg("ping", <<1, 1>>, 0)}
    /\ pingReply = {}
    /\ initReply = [i \in Connects |-> "none"]
    /\ execReply = [c \in Calls |-> "none"]
    /\ termReply = [k \in Kills |-> "none"]
    /\ isInit = FALSE
    /\ providerCallback = FALSE
    /\ initStatusResponsePort = 0
    /\ connectedProvider = FALSE
    /\ parentProxy = FALSE
    /\ booting = 0
    /\ factoryCalls = 0
    /\ closed = FALSE
    /\ terminated = FALSE
    /\ initReplies = 0
    /\ onStartLog = <<>>
    /\ listeners = <<>>
    /\ disposables = <<>>
    /\ forked = <<>>
    /\ dispatched = <<>>
    /\ termPc = [k \in Kills |-> "none"]
    /\ lst = [k \in Kills |-> [l \in Lsnrs |-> "none"]]
    /\ pcallPc = [p \in PCalls |-> "idle"]
    /\ pcallPromise = [p \in PCalls |-> "pending"]
    /\ pcallReply = [p \in PCalls |-> "none"]
    /\ pcallReplyFor = [p \in PCalls |-> 0]
    /\ queuedWorkerFnChain = <<>>
    /\ wiredTransferables = [v \in Values |-> <<>>]
    /\ postedMsg = <<>>
    /\ accessed = <<>>
    /\ invocation = <<>>
    /\ marked = <<>>
    /\ thrownErr = <<>>
    /\ reconciled = <<>>

\* The Initiator's microtask queue is empty: no continuation of a proxy call
\* or of a kill is ready to run.  The event loop runs a message handler or a
\* timer callback only then.
InitiatorIdle ==
    /\ \A c \in Calls :
          /\ callPc[c] # "gate"
          /\ callPc[c] = "waitReady" => connPromise[callConn[c]] = "pending"
    /\ \A k \in Kills :
          /\ killPc[k] \notin {"passed", "payload"}
          /\ killPc[k] = "waitReady" => connPromise[killConn[k]] = "pending"

\* =========================== handshake ===================================

\* The worker script has run VThreadable.init(): the handler is installed.
WorkerLoad ==
    /\ ~isInit /\ ~terminated
    /\ isInit' = TRUE
    /\ UNCHANGED <<initiatorVars, callVars, killVars, netVars, termVars, pcallVars, proxyVars,
                   providerCallback, initStatusResponsePort, connectedProvider,
                   parentProxy, booting, factoryCalls, closed, terminated,
                   initReplies, onStartLog, forkVars, dispatchVars>>

\* A message that reaches the worker before a handler exists is lost.
WorkerMiss ==
    /\ ~isInit /\ inbox # <<>>
    /\ inbox' = Tail(inbox)
    /\ UNCHANGED <<initiatorVars, callVars, killVars, providerVars, termVars, pcallVars, proxyVars,
                   posted, pingReply, initReply, execReply, termReply, forkVars, dispatchVars>>

WorkerUp == isInit /\ ~closed /\ ~terminated

\* handleMessageFromParent, type __vthread_ping
WorkerPing ==
    /\ WorkerUp /\ inbox # <<>> /\ Head(inbox).type = "ping"
    /\ inbox' = Tail(inbox)
    /\ pingReply' = pingReply \cup {Head(inbox).id}
    /\ UNCHANGED <<initiatorVars, callVars, killVars, providerVars, termVars, pcallVars, proxyVars,
                   posted, initReply, execReply, termReply, forkVars, dispatchVars>>

\* pingWorker's port1.onmessage; a reply to a ping whose handler the timeout
\* removed is dropped.  The executor of startWorker resumes in the same task.
PingReplyRecv ==
    \E r \in pingReply :
        LET i == r[1] IN
        /\ InitiatorIdle
        /\ pingReply' = pingReply \ {r}
        /\ IF r[2] = pingNo[i]
           THEN /\ workerState' = PingReplyState(workerState)
                /\ IF connPc[i] = "ping"
                   THEN ConnectRun(i, workerState', 0, FALSE)
                   ELSE UNCHANGED <<connPc, connPromise, pingNo, inbox, posted>>
           ELSE UNCHANGED <<workerState, connPc, connPromise, pingNo, inbox, posted>>
        /\ UNCHANGED <<workerInitPromise, hostAvailable, callVars, killVars, providerVars,
                       termVars, pcallVars, proxyVars, initReply, execReply, termReply, forkVars, dispatchVars>>

\* pingWorker's setTimeout callback: while the state is below Listening it
\* removes the old handler and calls pingWorker again; otherwise it does
\* nothing.
PingTimeout ==
    \E i \in Connects :
        /\ InitiatorIdle
        /\ pingNo[i] > 0 /\ pingNo[i] < MaxPings
        /\ workerState < Listening
        /\ pingNo' = [pingNo EXCEPT ![i] = @ + 1]
        /\ inbox' = Append(inbox, Msg("ping", <<i, pingNo[i] + 1>>, 0))
        /\ posted' = posted \cup {Msg("ping", <<i, pingNo[i] + 1>>, 0)}
        /\ UNCHANGED <<workerState, workerInitPromise, connPc, connPromise, hostAvailable,
                       callVars, killVars, providerVars, termVars, pcallVars, proxyVars,
                       pingReply, initReply, execReply, termReply, forkVars, dispatchVars>>

\* tryBootup without the test of initStatusResponsePort
tryBootupInvokesNoPort(connected, callback, port) ==
    ~connected /\ callback

\* ---- VThreadable.tryBootup, up to its await: whether the factory is invoked,
\* given the statics as the caller left them
tryBootupInvokes(connected, callback, port) ==
    ~connected /\ callback /\ port # 0

\* handleMessageFromParent, type __vthread_worker_init
WorkerInit ==
    /\ WorkerUp /\ inbox # <<>> /\ Head(inbox).type = "init"
    /\ LET i == Head(inbox).id IN
       /\ inbox' = Tail(inbox)
       /\ initReply' = IF connectedProvider /\ initReply[i] = "none"
                       THEN [initReply EXCEPT ![i] = "ok"] ELSE initReply
       /\ initReplies' = IF connectedProvider THEN initReplies + 1 ELSE initReplies
       /\ initStatusResponsePort' = i
       /\ parentProxy' = (parentProxy \/ hostAvailable)
       /\ IF tryBootupInvokes(connectedProvider, providerCallback, i)
          THEN booting' = booting + 1 /\ factoryCalls' = factoryCalls + 1
          ELSE UNCHANGED <<booting, factoryCalls>>
    /\ UNCHANGED <<initiatorVars, callVars, killVars, termVars, pcallVars, proxyVars,
                   posted, pingReply, execReply, termReply,
                   isInit, providerCallback, connectedProvider, closed, terminated,
                   onStartLog, forkVars, dispatchVars>>

\* onStart without the test of providerCallback
onStartThrowsNever(registered) == FALSE

\* ---- VThreadable.onStart: whether the call throws because a callback is
\* registered already
onStartThrows(registered) == registered

\* VThreadable.onStart(callback), called at most n times by the worker script
OnStart(n) ==
    /\ WorkerUp /\ Len(onStartLog) < n
    /\ IF onStartThrows(providerCallback)
       THEN /\ onStartLog' = Append(onStartLog, "threw")
            /\ UNCHANGED <<providerCallback, booting, factoryCalls>>
       ELSE /\ onStartLog' = Append(onStartLog, "registered")
            /\ providerCallback' = TRUE
            /\ IF tryBootupInvokes(connectedProvider, TRUE, initStatusResponsePort)
               THEN booting' = booting + 1 /\ factoryCalls' = factoryCalls + 1
               ELSE UNCHANGED <<booting, factoryCalls>>
    /\ UNCHANGED <<initiatorVars, callVars, killVars, netVars, termVars, pcallVars, proxyVars,
                   isInit, initStatusResponsePort, connectedProvider, parentProxy,
                   closed, terminated, initReplies, forkVars, dispatchVars>>

\* tryBootup after `await this.providerCallback(...)`: the factory returned a
\* surface (err = FALSE) or threw / rejected (err = TRUE); {err} is posted on
\* the current initStatusResponsePort.
BootupFinish ==
    \E err \in BOOLEAN :
        /\ WorkerUp /\ booting > 0
        /\ booting' = booting - 1
        /\ connectedProvider' = (connectedProvider \/ ~err)
        /\ initReplies' = initReplies + 1
        /\ initReply' = IF initReply[initStatusResponsePort] = "none"
                        THEN [initReply EXCEPT ![initStatusResponsePort] =
                                 IF err THEN "err" ELSE "ok"]
                        ELSE initReply
        /\ UNCHANGED <<initiatorVars, callVars, killVars, termVars, pcallVars, proxyVars,
                       inbox, posted, pingReply, execReply, termReply,
                       isInit, providerCallback, initStatusResponsePort, parentProxy,
                       factoryCalls, closed, terminated, onStartLog, forkVars, dispatchVars>>

\* startWorker's executor after `await this.delegateMessage(init)`
InitReplyRecv ==
    \E i \in Connects :
        /\ InitiatorIdle
        /\ connPc[i] = "init" /\ initReply[i] \in {"ok", "err"}
        /\ workerState' = InitReplyState(workerState)
        /\ IF workerState = Killed
           THEN /\ connPc' = [connPc EXCEPT ![i] = "rejected"]
                /\ connPromise' = [connPromise EXCEPT ![i] =
                                      IF @ = "pending" THEN "rejected" ELSE @]
           ELSE LET out == processMessage(initReply[i] = "err") IN
                /\ connPc' = [connPc EXCEPT ![i] =
                                 IF out = "return" THEN "done" ELSE "thrown"]
                /\ connPromise' = [connPromise EXCEPT ![i] = resolveWith(out, @)]
        /\ UNCHANGED <<workerInitPromise, pingNo, hostAvailable, callVars, killVars,
                       providerVars, termVars, pcallVars, proxyVars, netVars, forkVars, dispatchVars>>

\* ====================== proxy calls of the Initiator =====================

\* generateProxy's apply trap: everything that runs before the first await
\* that is not already settled (delegateMsgEnsured -> ensureWorkerReady,
\* delegateMessage up to `await payload`).
CallIssue(n) ==
    \E c \in 1..n :
        /\ callPc[c] = "idle" /\ \A d \in 1..(c-1) : callPc[d] # "idle"
        /\ callIssuedIn' = [callIssuedIn EXCEPT ![c] = workerState]
        /\ LET r == ensureWorkerReady(workerState) IN
           /\ callPc' = [callPc EXCEPT ![c] =
                            CASE r = "throw" -> "dead"
                              [] r = "await" -> "waitReady"
                              [] OTHER -> "gate"]
           /\ IF r = "await"
              THEN startWorker(c) /\ callConn' = [callConn EXCEPT ![c] = workerInitPromise']
              ELSE UNCHANGED <<workerInitPromise, connPc, connPromise, pingNo,
                               inbox, posted, callConn>>
        /\ UNCHANGED <<workerState, hostAvailable, callPromise, execReplyFor, killVars, providerVars,
                       termVars, pcallVars, proxyVars, pingReply, initReply, execReply, termReply, forkVars, dispatchVars>>

\* ensureWorkerReady after `await this.startWorker()`: it returns when the
\* init promise resolved and throws when it rejected; the throw ends the
\* async executor of delegateMsgEnsured, whose payload promise then never
\* settles.
CallReady ==
    \E c \in Calls :
        /\ callPc[c] = "waitReady" /\ connPromise[callConn[c]] # "pending"
        /\ callPc' = [callPc EXCEPT ![c] =
                         IF connPromise[callConn[c]] = "resolved" THEN "gate" ELSE "dead"]
        /\ UNCHANGED <<initiatorVars, callPromise, callIssuedIn, callConn, execReplyFor, killVars,
                       netVars, providerVars, termVars, pcallVars, proxyVars, forkVars, dispatchVars>>

\* delegateMessage after `await payload`: worker.postMessage(exec)
CallPost ==
    \E c \in Calls :
        /\ callPc[c] = "gate"
        /\ callPc' = [callPc EXCEPT ![c] = "posted"]
        /\ inbox' = Append(inbox, Msg("exec", c, c))
        /\ posted' = posted \cup {Msg("exec", c, c)}
        /\ UNCHANGED <<initiatorVars, callPromise, callIssuedIn, callConn, execReplyFor, killVars,
                       providerVars, termVars, pcallVars, proxyVars,
                       pingReply, initReply, execReply, termReply, forkVars, dispatchVars>>

\* every reply on the port of the first exec message
ReplyPortShared(m) == 1

\* ---- event.ports[0] of a message: the port2 of the channel that
\* delegateMessage (parentProxy's apply trap) created for this one message
ReplyPort(m) == m.id

\* handleMessageFromParent, type __vthread_parent_exec_child, up to the await
\* on the method: with no connectedProvider the chain lookup throws at once.
WorkerExec ==
    /\ WorkerUp /\ inbox # <<>> /\ Head(inbox).type = "exec"
    /\ LET c == Head(inbox).by
           responsePort == ReplyPort(Head(inbox)) IN
       /\ inbox' = Tail(inbox)
       /\ IF connectedProvider
          THEN /\ callPc' = [callPc EXCEPT ![c] = "executing"]
               /\ UNCHANGED <<execReply, execReplyFor>>
          ELSE /\ callPc' = [callPc EXCEPT ![c] = "replied"]
               /\ execReply' = [execReply EXCEPT ![responsePort] = "err"]
               /\ execReplyFor' = [execReplyFor EXCEPT ![responsePort] = c]
    /\ UNCHANGED <<initiatorVars, callPromise, callIssuedIn, callConn, killVars,
                   providerVars, termVars, pcallVars, proxyVars, posted, pingReply, initReply, termReply, forkVars, dispatchVars>>

\* the surface method returned (err = FALSE) or threw (err = TRUE):
\* responsePort.postMessage({err, ret})
WorkerExecDone ==
    \E c \in Calls, err \in BOOLEAN :
        LET responsePort == ReplyPort(Msg("exec", c, c)) IN
        /\ WorkerUp /\ callPc[c] = "executing"
        /\ callPc' = [callPc EXCEPT ![c] = "replied"]
        /\ execReply' = [execReply EXCEPT ![responsePort] = IF err THEN "err" ELSE "ret"]
        /\ execReplyFor' = [execReplyFor EXCEPT ![responsePort] = c]
        /\ UNCHANGED <<initiatorVars, callPromise, callIssuedIn, callConn, killVars,
                       providerVars, termVars, pcallVars, proxyVars,
                       inbox, posted, pingReply, initReply, termReply, forkVars, dispatchVars>>

\* delegateMessage's port1.onmessage, then generateProxy's
\* `resolve(processMessage(t, localErrForStack))`
CallReplyRecv ==
    \E c \in Calls :
        /\ InitiatorIdle
        /\ callPc[c] = "replied"
        /\ LET out == processMessage(execReply[c] = "err") IN
           /\ callPc' = [callPc EXCEPT ![c] = IF out = "return" THEN "done" ELSE "thrown"]
           /\ callPromise' = [callPromise EXCEPT ![c] = resolveWith(out, @)]
        /\ UNCHANGED <<initiatorVars, callIssuedIn, callConn, execReplyFor, killVars, netVars,
                       providerVars, termVars, pcallVars, proxyVars, forkVars, dispatchVars>>

\* ================================ kill ===================================

\* kill(lastWords, graceful) up to `await this.ensureWorkerReady()`
KillIssue(n) ==
    \E k \in 1..n, g \in BOOLEAN :
        /\ killPc[k] = "idle" /\ \A d \in 1..(k-1) : killPc[d] # "idle"
        /\ killGraceful' = [killGraceful EXCEPT ![k] = g]
        /\ LET r == ensureWorkerReady(workerState) IN
           /\ killPc' = [killPc EXCEPT ![k] =
                            CASE r = "throw" -> "rejected"
                              [] r = "await" -> "waitReady"
                              [] OTHER -> "passed"]
           /\ killPromise' = [killPromise EXCEPT ![k] =
                                 IF r = "throw" THEN "rejected" ELSE @]
           /\ IF r = "await"
              THEN startWorker(0) /\ killConn' = [killConn EXCEPT ![k] = workerInitPromise']
              ELSE UNCHANGED <<workerInitPromise, connPc, connPromise, pingNo,
                               inbox, posted, killConn>>
        /\ UNCHANGED <<workerState, hostAvailable, callVars, providerVars, termVars,
                       pcallVars, proxyVars, pingReply, initReply, execReply, termReply, forkVars, dispatchVars>>

\* ensureWorkerReady settled for a kill that waited for the init promise
KillReady ==
    \E k \in Kills :
        /\ killPc[k] = "waitReady" /\ connPromise[killConn[k]] # "pending"
        /\ IF connPromise[killConn[k]] = "resolved"
           THEN killPc' = [killPc EXCEPT ![k] = "passed"] /\ UNCHANGED killPromise
           ELSE /\ killPc' = [killPc EXCEPT ![k] = "rejected"]
                /\ killPromise' = [killPromise EXCEPT ![k] = "rejected"]
        /\ UNCHANGED <<initiatorVars, callVars, killGraceful, killConn,
                       netVars, providerVars, termVars, pcallVars, proxyVars, forkVars, dispatchVars>>

\* kill after the await: this.workerState = Killed, delegateMessage entered
KillSetState ==
    \E k \in Kills :
        /\ killPc[k] = "passed"
        /\ workerState' = Killed
        /\ killPc' = [killPc EXCEPT ![k] = "payload"]
        /\ UNCHANGED <<workerInitPromise, connPc, connPromise, pingNo, hostAvailable,
                       callVars, killPromise, killGraceful, killConn,
                       netVars, providerVars, termVars, pcallVars, proxyVars, forkVars, dispatchVars>>

\* delegateMessage after `await payload`: worker.postMessage(terminate)
KillPost ==
    \E k \in Kills :
        /\ killPc[k] = "payload"
        /\ killPc' = [killPc EXCEPT ![k] = "posted"]
        /\ inbox' = Append(inbox, Msg("term", k, 0))
        /\ posted' = posted \cup {Msg("term", k, 0)}
        /\ UNCHANGED <<initiatorVars, callVars, killPromise, killGraceful,
                       killConn, providerVars, termVars, pcallVars, proxyVars,
                       pingReply, initReply, execReply, termReply, forkVars, dispatchVars>>

\* kill after the terminate reply: processMessage, then worker.terminate()
KillReplyRecv ==
    \E k \in Kills :
        /\ InitiatorIdle
        /\ killPc[k] = "posted" /\ termReply[k] # "none"
        /\ LET out == processMessage(termReply[k] = "err") IN
           /\ killPc' = [killPc EXCEPT ![k] = IF out = "return" THEN "done" ELSE "failed"]
           /\ killPromise' = [killPromise EXCEPT ![k] = asyncReturn(out)]
           /\ terminated' = (terminated \/ out = "return")
        /\ UNCHANGED <<initiatorVars, callVars, killGraceful, killConn,
                       netVars, termVars, pcallVars, proxyVars,
                       isInit, providerCallback, initStatusResponsePort, connectedProvider,
                       parentProxy, booting, factoryCalls, closed,
                       initReplies, onStartLog, forkVars, dispatchVars>>

\* ==================== the exec dispatcher of a surface ====================

\* property names of an exec chain; every object inherits toString
DispatchNames == PropNames \cup {"toString"}
FnChains == UNION {[1..n -> DispatchNames] : n \in 0..MaxChain}

\* surfaces: the own properties of the registered object ("root") and of an
\* object nested in it ("sub"); F1, F2 are functions of the surface
Surfaces ==
    {[root |-> [f |-> a, g |-> b, toString |-> c],
      sub |-> [f |-> d, g |-> "undefined", toString |-> "undefined"]] :
        a \in {"undefined", "F1", "sub"}, b \in {"undefined", "F1"},
        c \in {"undefined", "F2"}, d \in {"undefined", "F2"}}

\* typeof v === 'function'
isFunction(v) == v \in {"F1", "F2", "Object.prototype.toString", "Function.prototype.toString"}

\* ---- accu[prop]: the own property, else the inherited one; "throw" where
\* accu is undefined; "{}" is the empty object literal ----
getProp(surface, accu, prop) ==
    CASE accu \in {"undefined", "throw"} -> "throw"
      [] accu \in {"root", "sub"} ->
            IF surface[accu][prop] # "undefined" THEN surface[accu][prop]
            ELSE IF prop = "toString" THEN "Object.prototype.toString" ELSE "undefined"
      [] accu = "{}" ->
            IF prop = "toString" THEN "Object.prototype.toString" ELSE "undefined"
      [] OTHER ->
            IF prop = "toString" THEN "Function.prototype.toString" ELSE "undefined"

\* ---- the reducer: typeof accu[prop] !== 'undefined' ? accu[prop] :
\* connectedProvider[prop] ----
reducer(surface, accu, prop) ==
    LET own == getProp(surface, accu, prop) IN
    IF own \in {"undefined"} THEN getProp(surface, "root", prop) ELSE own

\* ---- fnChain.reduce(reducer, initial) ----
RECURSIVE reduce(_, _, _)
reduce(surface, fnChain, initial) ==
    IF fnChain = <<>> THEN initial
    ELSE reduce(surface, Tail(fnChain), reducer(surface, initial, Head(fnChain)))

\* ---- the initial value handed to reduce: {} ----
reduceInitial == "{}"

\* ---- handleMessageFromParent, type __vthread_parent_exec_child (and
\* handleWorkerMessage, type __vthread_child_exec_parent): the function
\* invoked, its receiver and the reply posted; fnThrows is whether the
\* invoked function throws or rejects ----
execOutcome(surface, fnChain, fnThrows) ==
    LET maybeFn == reduce(surface, fnChain, reduceInitial) IN
    IF maybeFn = "throw"
    THEN [invoked |-> "none", receiver |-> "none", reply |-> "err", name |-> "Error"]
    ELSE IF ~isFunction(maybeFn)
    THEN [invoked |-> "none", receiver |-> "none", reply |-> "err", name |-> "TypeError"]
    ELSE [invoked |-> maybeFn, receiver |-> "root",
          reply |-> IF fnThrows THEN "err" ELSE "ret",
          name |-> IF fnThrows THEN "thrown" ELSE "none"]

\* one exec message is handled on a registered surface
Dispatch ==
    \E surface \in Surfaces, fnChain \in FnChains, fnThrows \in BOOLEAN :
        /\ dispatched' = <<[surface |-> surface, fnChain |-> fnChain, fnThrows |-> fnThrows,
                            out |-> execOutcome(surface, fnChain, fnThrows)]>>
        /\ UNCHANGED <<initiatorVars, callVars, killVars, netVars, providerVars, termVars,
                       pcallVars, proxyVars, forkVars>>

\* ============================== fork ====================================

\* the arguments the first handle was started with, and its worker
scriptUrl == "worker.js"
workerInitOptions == "options"
worker == 1

\* the constructor handing every handle the worker of the first one
constructorSharedWorker(url, initOptions, host, w) ==
    [scriptUrl |-> url, workerInitOptions |-> initOptions, host |-> host,
     worker |-> worker, workerState |-> Loading]

\* ---- VThread's constructor: the fields of the new handle; w is the
\* object `new Worker(scriptUrl)` creates ----
constructor(url, initOptions, host, w) ==
    [scriptUrl |-> url, workerInitOptions |-> initOptions, host |-> host,
     worker |-> w, workerState |-> Loading]

\* the constructor arguments fork() reads from handle h (0: the first handle)
forkArgs(h) ==
    IF h = 0 THEN <<scriptUrl, workerInitOptions, hostAvailable>>
    ELSE <<forked[h].scriptUrl, forked[h].workerInitOptions, forked[h].host>>

\* fork() on any handle: new VThread(this.scriptUrl, this.workerInitOptions, this.host)
Fork ==
    \E h \in 0..Len(forked) :
        /\ Len(forked) < MaxForks
        /\ forked' = Append(forked, constructor(forkArgs(h)[1], forkArgs(h)[2], forkArgs(h)[3],
                                                Len(forked) + 2))
        /\ UNCHANGED <<initiatorVars, callVars, killVars, netVars, providerVars, termVars,
                       pcallVars, proxyVars, dispatchVars>>

\* a forked handle receives the reply to its ping
ForkedPingReply ==
    \E h \in 1..Len(forked) :
        /\ forked[h].workerState = Loading
        /\ forked' = [forked EXCEPT ![h].workerState = PingReplyState(@)]
        /\ UNCHANGED <<initiatorVars, callVars, killVars, netVars, providerVars, termVars,
                       pcallVars, proxyVars, dispatchVars>>

\* a forked handle receives the reply to its init message
ForkedInitReply ==
    \E h \in 1..Len(forked) :
        /\ forked[h].workerState = Listening
        /\ forked' = [forked EXCEPT ![h].workerState = InitReplyState(@)]
        /\ UNCHANGED <<initiatorVars, callVars, killVars, netVars, providerVars, termVars,
                       pcallVars, proxyVars, dispatchVars>>

\* kill() on a forked handle, after its `await this.ensureWorkerReady()`
ForkedKill ==
    \E h \in 1..Len(forked) :
        /\ forked[h].workerState = Ready
        /\ forked' = [forked EXCEPT ![h].workerState = Killed]
        /\ UNCHANGED <<initiatorVars, callVars, killVars, netVars, providerVars, termVars,
                       pcallVars, proxyVars, dispatchVars>>

ForkSteps ==
    \/ Fork
    \/ ForkedPingReply
    \/ ForkedInitReply
    \/ ForkedKill

\* ===================== termination on the Provider =======================

\* VThreadHost.onWillTerminate(cb) -> EventManager.add
RegisterListener ==
    /\ WorkerUp /\ factoryCalls > 0 /\ Len(disposables) < MaxListeners
    /\ listeners' = Append(listeners, Len(disposables) + 1)
    /\ disposables' = Append(disposables, 0)
    /\ UNCHANGED <<initiatorVars, callVars, killVars, netVars, providerVars, pcallVars, proxyVars,
                   termPc, lst, forkVars, dispatchVars>>

\* ---- Array.prototype.indexOf, 1-based; 0 where the source gives -1 ----
indexOf(existing, cb) ==
    IF \E n \in 1..Len(existing) : existing[n] = cb
    THEN CHOOSE n \in 1..Len(existing) :
            existing[n] = cb /\ \A j \in 1..(n - 1) : existing[j] # cb
    ELSE 0

\* ---- existing.splice(idx, 1), idx as indexOf gives it: a start of -1
\* counts from the end of the array, so the last element is removed ----
splice1(existing, idx) ==
    LET start == IF idx = 0 THEN Len(existing) ELSE idx IN
    [n \in 1..(Len(existing) - (IF start = 0 THEN 0 ELSE 1)) |->
        IF n < start THEN existing[n] ELSE existing[n + 1]]

\* the handle's dispose(): existing.splice(existing.indexOf(cb), 1)
Dispose ==
    \E l \in 1..Len(disposables) :
        /\ WorkerUp /\ disposables[l] < MaxDisposes
        /\ listeners' = splice1(listeners, indexOf(listeners, l))
        /\ disposables' = [disposables EXCEPT ![l] = @ + 1]
        /\ UNCHANGED <<initiatorVars, callVars, killVars, netVars, providerVars, pcallVars,
                       proxyVars, termPc, lst, forkVars, dispatchVars>>

\* callbacks.map / callbacks.forEach over the registered listeners, in
\* order: t = 0 when every listener returns, else the t-th listener throws
\* synchronously and the ones after it are not invoked.
Invoked(t) ==
    [l \in Lsnrs |->
        IF \E n \in 1..Len(listeners) : listeners[n] = l
        THEN LET n == CHOOSE n \in 1..Len(listeners) : listeners[n] = l IN
             IF t = 0 \/ n < t THEN "pending"
             ELSE IF n = t THEN "threw" ELSE "skipped"
        ELSE "none"]

\* ---- EventManager.pDispatch: the state of `Promise.all(callbacks.map(...))`
pDispatch(st) ==
    IF \E l \in Lsnrs : st[l] \in {"threw", "rejected"} THEN "rejected"
    ELSE IF \A l \in Lsnrs : st[l] \in {"none", "resolved"} THEN "resolved"
    ELSE "pending"

\* handleMessageFromParent, type __vthread_worker_terminate_begin, graceful:
\* up to `await eventManager.pDispatch(...)`
WorkerTermGraceful ==
    /\ WorkerUp /\ inbox # <<>> /\ Head(inbox).type = "term"
    /\ LET k == Head(inbox).id IN
       /\ killGraceful[k]
       /\ inbox' = Tail(inbox)
       /\ \E t \in 0..Len(listeners) : lst' = [lst EXCEPT ![k] = Invoked(t)]
       /\ termPc' = [termPc EXCEPT ![k] = "awaiting"]
    /\ UNCHANGED <<initiatorVars, callVars, killVars, providerVars, pcallVars, proxyVars, listeners, disposables,
                   posted, pingReply, initReply, execReply, termReply, forkVars, dispatchVars>>

\* the promise a listener returned settles
ListenerSettle ==
    \E k \in Kills, l \in Lsnrs, ok \in BOOLEAN :
        /\ WorkerUp /\ lst[k][l] = "pending"
        /\ lst' = [lst EXCEPT ![k][l] = IF ok THEN "resolved" ELSE "rejected"]
        /\ UNCHANGED <<initiatorVars, callVars, killVars, netVars, providerVars, pcallVars, proxyVars,
                       listeners, disposables, termPc, forkVars, dispatchVars>>

\* the graceful handler after its await: responsePort.postMessage({err}); close()
WorkerTermReply ==
    \E k \in Kills :
        /\ WorkerUp /\ termPc[k] = "awaiting" /\ pDispatch(lst[k]) # "pending"
        /\ termPc' = [termPc EXCEPT ![k] = "answered"]
        /\ termReply' = [termReply EXCEPT ![k] =
                            IF pDispatch(lst[k]) = "rejected" THEN "err" ELSE "ok"]
        /\ closed' = TRUE
        /\ UNCHANGED <<initiatorVars, callVars, killVars, pcallVars, proxyVars, listeners, disposables, lst,
                       inbox, posted, pingReply, initReply, execReply,
                       isInit, providerCallback, initStatusResponsePort, connectedProvider,
                       parentProxy, booting, factoryCalls, terminated,
                       initReplies, onStartLog, forkVars, dispatchVars>>

\* the same handler, not graceful: dispatch, reply and close() in one task
WorkerTermForced ==
    /\ WorkerUp /\ inbox # <<>> /\ Head(inbox).type = "term"
    /\ LET k == Head(inbox).id IN
       /\ ~killGraceful[k]
       /\ inbox' = Tail(inbox)
       /\ \E t \in 0..Len(listeners) :
            /\ lst' = [lst EXCEPT ![k] = Invoked(t)]
            /\ termReply' = [termReply EXCEPT ![k] = IF t # 0 THEN "err" ELSE "ok"]
       /\ termPc' = [termPc EXCEPT ![k] = "answered"]
       /\ closed' = TRUE
    /\ UNCHANGED <<initiatorVars, callVars, killVars, pcallVars, proxyVars, listeners, disposables,
                   posted, pingReply, initReply, execReply,
                   isInit, providerCallback, initStatusResponsePort, connectedProvider,
                   parentProxy, booting, factoryCalls, terminated,
                   initReplies, onStartLog, forkVars, dispatchVars>>

\* ================ calls of the Provider on the master proxy ==============

\* parentProxy's apply trap: postMessage(__vthread_child_exec_parent)
PCallIssue ==
    \E p \in PCalls :
        /\ WorkerUp /\ parentProxy /\ factoryCalls > 0
        /\ pcallPc[p] = "idle" /\ \A d \in 1..(p-1) : pcallPc[d] # "idle"
        /\ pcallPc' = [pcallPc EXCEPT ![p] = "posted"]
        /\ UNCHANGED <<initiatorVars, callVars, killVars, netVars, providerVars, termVars,
                       proxyVars, pcallPromise, pcallReply, pcallReplyFor, forkVars, dispatchVars>>

\* handleWorkerMessage: the host method returned (err = FALSE) or the lookup
\* or the method threw (err = TRUE); responsePort.postMessage({err, ret})
HostExec ==
    \E p \in PCalls, err \in BOOLEAN :
        /\ InitiatorIdle /\ ~terminated /\ pcallPc[p] = "posted"
        /\ pcallPc' = [pcallPc EXCEPT ![p] = "replied"]
        /\ LET responsePort == ReplyPort(Msg("pexec", p, 0)) IN
           /\ pcallReply' = [pcallReply EXCEPT ![responsePort] = IF err THEN "err" ELSE "ret"]
           /\ pcallReplyFor' = [pcallReplyFor EXCEPT ![responsePort] = p]
        /\ UNCHANGED <<initiatorVars, callVars, killVars, netVars, providerVars, termVars,
                       proxyVars, pcallPromise, forkVars, dispatchVars>>

\* parentProxy's port1.onmessage: `resolve(processMessage(e, localErrForStack))`
PCallReplyRecv ==
    \E p \in PCalls :
        /\ WorkerUp /\ pcallPc[p] = "replied"
        /\ LET out == processMessage(pcallReply[p] = "err") IN
           /\ pcallPc' = [pcallPc EXCEPT ![p] = IF out = "return" THEN "done" ELSE "thrown"]
           /\ pcallPromise' = [pcallPromise EXCEPT ![p] = resolveWith(out, @)]
        /\ UNCHANGED <<initiatorVars, callVars, killVars, netVars, providerVars, termVars,
                       proxyVars, pcallReply, pcallReplyFor, forkVars, dispatchVars>>

\* ============== proxy chain and transfer registry of one context =========

\* an element of the transfer list given to postMessage: the reply port, one
\* buffer, or an array (which is what a pushed list is)
Port == [kind |-> "port", of |-> <<>>]
Buffer(b) == [kind |-> "buffer", of |-> <<b>>]
Array(l) == [kind |-> "array", of |-> l]

\* ---- markAsVTransferable(value, ...transferables): the registry it leaves
markAsVTransferable(reg, value, list) ==
    IF value # "p"
    THEN LET transferables == IF Len(list) = 0 THEN <<value>> ELSE list IN
         IF \A n \in 1..Len(transferables) : transferables[n] \in Buffers
         THEN [reg EXCEPT ![value] = transferables]
         ELSE reg
    ELSE reg

\* ---- args.forEach of the apply trap: for an argument with an entry,
\* transferables.push(wiredTransferables.get(arg)) and delete; the result is
\* the array `transferables` and the registry left
RECURSIVE argTransferables(_, _)
argTransferables(args, reg) ==
    IF args = <<>> THEN [list |-> <<>>, reg |-> reg]
    ELSE LET arg == Head(args)
             has == reg[arg] # <<>>
             rest == argTransferables(Tail(args),
                                      IF has THEN [reg EXCEPT ![arg] = <<>>] ELSE reg)
         IN [list |-> (IF has THEN <<Array(reg[arg])>> ELSE <<>>) \o rest.list,
             reg |-> rest.reg]

\* ---- the reply of an exec handler: postMessage({err, ret}, wiredTransferables.get(ret))
retTransferList(ret, reg) == [n \in 1..Len(reg[ret]) |-> Buffer(reg[ret][n])]

\* the apply trap keeping the chain buffer
chainAfterApplyKept(chain) == chain

\* ---- the apply trap: `queuedWorkerFnChain = []`
chainAfterApply(chain) == <<>>

\* ---- markAsVTransferable(value, ...transferables): whether it throws the
\* TypeError
markAsVTransferableThrows(value, list) ==
    IF value # "p"
    THEN LET transferables == IF Len(list) = 0 THEN <<value>> ELSE list IN
         ~(\A n \in 1..Len(transferables) : transferables[n] \in Buffers)
    ELSE FALSE

\* markAsVTransferable(value, ...list) called by the program
Mark ==
    \E value \in Values, list \in MarkLists :
        /\ wiredTransferables' = markAsVTransferable(wiredTransferables, value, list)
        /\ marked' = <<[value |-> value, list |-> list, reg |-> wiredTransferables,
                        threw |-> markAsVTransferableThrows(value, list)]>>
        /\ postedMsg' = <<>>
        /\ invocation' = <<>>
        /\ UNCHANGED <<initiatorVars, callVars, killVars, netVars, providerVars, termVars,
                       pcallVars, queuedWorkerFnChain, accessed, thrownErr, reconciled, forkVars, dispatchVars>>

\* the proxy's get trap
ProxyGet ==
    \E subtprop \in PropNames :
        /\ Len(accessed) < MaxChain
        /\ queuedWorkerFnChain' = Append(queuedWorkerFnChain, subtprop)
        /\ accessed' = Append(accessed, subtprop)
        /\ postedMsg' = <<>>
        /\ invocation' = <<>>
        /\ marked' = <<>>
        /\ UNCHANGED <<initiatorVars, callVars, killVars, netVars, providerVars, termVars,
                       pcallVars, wiredTransferables, thrownErr, reconciled, forkVars, dispatchVars>>

\* the proxy's apply trap and the postMessage of delegateMessage: the exec
\* message with its transfer list [channel.port2, ...transferables]
ProxyApply ==
    \E args \in ArgLists :
        LET t == argTransferables(args, wiredTransferables) IN
        /\ postedMsg' = <<[type |-> "exec", fnChain |-> queuedWorkerFnChain, args |-> args,
                           transfer |-> <<Port>> \o t.list]>>
        /\ wiredTransferables' = t.reg
        /\ queuedWorkerFnChain' = chainAfterApply(queuedWorkerFnChain)
        /\ invocation' = <<[names |-> accessed, args |-> args, reg |-> wiredTransferables]>>
        /\ accessed' = <<>>
        /\ marked' = <<>>
        /\ UNCHANGED <<initiatorVars, callVars, killVars, netVars, providerVars, termVars,
                       pcallVars, thrownErr, reconciled, forkVars, dispatchVars>>

\* an exec handler replying with the value `ret` its method returned
ReplyWithRet ==
    \E ret \in Values :
        /\ postedMsg' = <<[type |-> "reply", fnChain |-> <<>>, args |-> <<ret>>,
                           transfer |-> retTransferList(ret, wiredTransferables)]>>
        /\ invocation' = <<[names |-> <<>>, args |-> <<ret>>, reg |-> wiredTransferables]>>
        /\ marked' = <<>>
        /\ UNCHANGED <<initiatorVars, callVars, killVars, netVars, providerVars, termVars,
                       pcallVars, queuedWorkerFnChain, wiredTransferables, accessed,
                       thrownErr, reconciled, forkVars, dispatchVars>>

\* ===================== reconciliation of an error reply ==================

\* a parsed stack frame: its line of the stack and its function name
Frame(fn) == [source |-> fn, functionName |-> fn]
\* the frame of the proxy's apply trap, where errForStackGen is created
Trampoline == Frame("Object.apply")
CallerFrames == {Frame("caller"), Frame("main")}
RemoteFrames == {Frame("method"), Frame("helper")}
\* the stacks of a local Error: created in the apply trap, or in kill and
\* startWorker (no trampoline)
LocalStacks ==
    {<<Trampoline>> \o t : t \in UNION {[1..m -> CallerFrames] : m \in 0..MaxFrames}}
        \cup UNION {[1..m -> CallerFrames] : m \in 1..MaxFrames}
\* the error envelopes a peer sends: serializeError of an error that was
\* given its stackFrames
Envelopes ==
    [name : {"TypeError", "MyError"}, message : {"boom", "not a function"},
     stackFrames : UNION {[1..m -> RemoteFrames] : m \in 0..MaxFrames}]

\* the merged frames, local frames first
mergedFramesLocalFirst(stackFrames, localStack) == localStack \o stackFrames

\* ---- processMessage: [...err.stackFrames, ...localStack]
mergedFrames(stackFrames, localStack) == stackFrames \o localStack

\* ---- processMessage with err in the reply: the error it throws, given the
\* envelope and the frames of localErrForStack
hydratedErr(err, localFrames) ==
    LET localStack == IF localFrames # <<>> /\ localFrames[1].functionName = "Object.apply"
                      THEN Tail(localFrames) ELSE localFrames
        frames == mergedFrames(err.stackFrames, localStack)
    IN [ctr |-> IF err.name \in {"TypeError"} THEN err.name ELSE "Error",
        name |-> err.name,
        message |-> err.message,
        stack |-> [n \in 1..Len(frames) |-> frames[n].source]]

\* a reply carrying err is reconciled with the local Error of its call
Reconcile ==
    \E err \in Envelopes, localFrames \in LocalStacks :
        /\ thrownErr' = <<hydratedErr(err, localFrames)>>
        /\ reconciled' = <<[err |-> err, local |-> localFrames]>>
        /\ UNCHANGED <<initiatorVars, callVars, killVars, netVars, providerVars, termVars,
                       pcallVars, queuedWorkerFnChain, wiredTransferables, postedMsg,
                       accessed, invocation, marked, forkVars, dispatchVars>>

Handshake(n) ==
    \/ WorkerLoad
    \/ WorkerMiss
    \/ WorkerPing
    \/ PingReplyRecv
    \/ PingTimeout
    \/ WorkerInit
    \/ OnStart(n)
    \/ BootupFinish
    \/ InitReplyRecv

ProxyCalls(n) ==
    \/ CallIssue(n)
    \/ CallReady
    \/ CallPost
    \/ WorkerExec
    \/ WorkerExecDone
    \/ CallReplyRecv

KillSteps(n) ==
    \/ KillIssue(n)
    \/ KillReady
    \/ KillSetState
    \/ KillPost
    \/ KillReplyRecv
    \/ WorkerTermGraceful
    \/ WorkerTermReply
    \/ WorkerTermForced

ListenerSteps ==
    \/ RegisterListener
    \/ ListenerSettle

MasterCalls ==
    \/ PCallIssue
    \/ HostExec
    \/ PCallReplyRecv

\* one handle: the handshake, proxy calls and kills
Next == Handshake(1) \/ ProxyCalls(MaxCallsWithKills) \/ KillSteps(MaxKillsWithCalls)

\* termination: the handshake, kills and will-terminate listeners
NextTerm == Handshake(1) \/ KillSteps(MaxKills) \/ ListenerSteps

\* will-terminate listeners registered and disposed before one kill
NextListen == Handshake(1) \/ KillSteps(MaxKillsWithCalls) \/ ListenerSteps \/ Dispose

\* the first handle with a call and a kill, and the handles forked from it
NextFork == Handshake(1) \/ ProxyCalls(1) \/ KillSteps(1) \/ ForkSteps

\* the exec dispatcher over every surface and chain
NextDispatch == Dispatch

\* calls in both directions
NextBack == Handshake(1) \/ ProxyCalls(MaxCalls) \/ MasterCalls

\* start-up of a worker script that calls onStart repeatedly
NextBoot == Handshake(MaxOnStarts) \/ ProxyCalls(MaxCallsWithKills)

\* one context's proxy: marking, chaining, invoking, replying
NextProxy == Mark \/ ProxyGet \/ ProxyApply \/ ReplyWithRet

\* error replies reconciled one after another
NextError == Reconcile

Spec == Init /\ [][Next]_vars
SpecTerm == Init /\ [][NextTerm]_vars
SpecListen == Init /\ [][NextListen]_vars
SpecFork == Init /\ [][NextFork]_vars
SpecDispatch == Init /\ [][NextDispatch]_vars
SpecBack == Init /\ [][NextBack]_vars
SpecBoot == Init /\ [][NextBoot]_vars
SpecProxy == Init /\ [][NextProxy]_vars
SpecError == Init /\ [][NextError]_vars
\* start-up where the worker's handler runs for every message it is given,
\* a posted reply is delivered and the 100 ms timer fires
SpecPing ==
    /\ Init /\ [][NextBoot]_vars
    /\ WF_vars(WorkerPing) /\ WF_vars(PingReplyRecv) /\ WF_vars(PingTimeout)

\* ============================== claims ===================================

InitPosted == {m \in posted : m.type = "init"}

\* The worker has answered everything call c waits for and the Initiator has
\* nothing left to run for it: the ping and the init message are answered and
\* the reply handled, and the exec request, if one was posted, is answered
\* and the reply handled.
CallQuiescent(c) ==
    /\ callPc[c] \in {"waitReady", "dead", "done", "thrown"}
    /\ callConn[c] # 0 => connPc[callConn[c]] \in {"done", "thrown", "rejected"}
    /\ InitiatorIdle

\* C1: a proxy call issued while the state is Loading or Listening is never
\* dropped: once the worker has answered the ping, the init message (with
\* success or with an error) and the exec request, the call's promise has
\* settled.
C1_NoCallDropped ==
    \A c \in Calls :
        (callPc[c] # "idle" /\ callIssuedIn[c] \in {Loading, Listening} /\ CallQuiescent(c))
            => callPromise[c] # "pending"

\* C2: when the exec reply carries err, the caller's promise is rejected, in
\* both directions (worker proxy of the Initiator, master proxy of the Provider).
C2_ErrReplyRejects ==
    /\ \A c \in Calls :
          (callPc[c] \in {"done", "thrown"} /\ execReply[c] = "err")
              => callPromise[c] = "rejected"
    /\ \A p \in PCalls :
          (pcallPc[p] \in {"done", "thrown"} /\ pcallReply[p] = "err")
              => pcallPromise[p] = "rejected"

\* C3: a proxy call attempted after the state became Killed fails at once:
\* its promise is rejected.
C3_CallAfterKilledRejects ==
    \A c \in Calls :
        (callPc[c] # "idle" /\ callIssuedIn[c] = Killed) => callPromise[c] = "rejected"

\* C4: for a proxy call attempted after the state became Killed no message
\* (exec, ping or init) is posted to the worker on behalf of that call.
C4_NoTrafficAfterKilled ==
    \A m \in posted : m.by # 0 => callIssuedIn[m.by] # Killed

C4_Witness ==
    \E c \in Calls : callPc[c] = "dead" /\ callIssuedIn[c] = Killed /\ InitiatorIdle

\* C5: the lifecycle state only moves forward in the order
\* Loading < Listening < Ready < Killed, and Killed is never left.
C5_StateMonotone ==
    [][/\ workerState' >= workerState
       /\ workerState = Killed => workerState' = Killed]_vars

C5_Witness ==
    /\ workerState = Killed
    /\ \E c \in Calls : callIssuedIn[c] = Killed /\ callPc[c] # "idle"
    /\ \E k \in Kills : killPc[k] = "done"

\* C6: the state becomes Ready only upon an init reply that reports success:
\* once an init reply carrying err has been received the state is not Ready.
C6_ReadyOnlyOnSuccess ==
    \A i \in Connects :
        (initReply[i] = "err" /\ connPc[i] # "init") => workerState # Ready

\* C7: kill invoked in any state moves the state to Killed, also when the
\* handshake has not completed: once a kill has been invoked and the
\* Initiator has run everything it can run, the state is Killed.
C7_KillReachesKilled ==
    ((\E k \in Kills : killPc[k] # "idle") /\ InitiatorIdle) => workerState = Killed

\* C8: proxy calls and kills issued before readiness share one connect
\* operation: at most one init message is ever posted to the worker.
C8_OneInit == Cardinality(InitPosted) <= 1

C8_Witness ==
    /\ Cardinality(InitPosted) = 1
    /\ \E c \in Calls : callPc[c] = "waitReady"
    /\ \E k \in Kills : killPc[k] = "waitReady"

\* C9: when kill is invoked twice on the same handle, the second invocation
\* is rejected, whether the first kill has completed or is still in progress:
\* it never goes on to set the state and post a terminate message, and its
\* promise is never resolved.
C9_SecondKillRejected ==
    \A k \in Kills :
        k > 1 => /\ killPc[k] \notin {"payload", "posted", "done", "failed"}
                 /\ killPromise[k] # "resolved"

\* C10: on a graceful kill the terminate reply is posted (and the worker
\* closed) only after the promise of every registered will-terminate
\* listener has settled: none is still pending when the reply is posted.
C10_GracefulWaitsAll ==
    \A k \in Kills :
        (killGraceful[k] /\ termPc[k] = "answered")
            => \A l \in Lsnrs : lst[k][l] # "pending"

\* C11: on a kill that is not graceful every registered will-terminate
\* listener has been invoked by the time the terminate reply is posted and
\* the worker closed (and none of their promises is waited for).
C11_ForcedInvokesAll ==
    \A k \in Kills :
        (~killGraceful[k] /\ termPc[k] = "answered")
            => \A n \in 1..Len(listeners) :
                  lst[k][listeners[n]] \notin {"none", "skipped"}

\* C12: when a will-terminate listener throws or rejects, the error travels
\* in the terminate reply and termination still completes: once the Initiator
\* has handled that reply the Provider is closed, worker.terminate() has been
\* called and the state is Killed.
C12_TerminationCompletes ==
    \A k \in Kills :
        (termReply[k] = "err" /\ killPc[k] \in {"done", "failed"})
            => closed /\ terminated /\ workerState = Killed

\* C13: in every ordering of the onStart registration and the arrival of the
\* init message the factory is invoked exactly once, once both have
\* happened and never before the init message was received, and exactly one
\* init reply is posted (when the factory has finished).
C13_FactoryOnce ==
    /\ factoryCalls <= 1
    /\ factoryCalls > 0 => initStatusResponsePort # 0
    /\ (providerCallback /\ initStatusResponsePort # 0) => factoryCalls = 1
    /\ initReplies = (IF factoryCalls = 1 /\ booting = 0 THEN 1 ELSE 0)

C13_Witness ==
    /\ factoryCalls = 1 /\ booting = 0 /\ initReplies = 1
    /\ Len(onStartLog) = MaxOnStarts
    /\ \E i \in Connects : connPc[i] \in {"done", "thrown"}

\* C14: a second onStart registration throws and has no other effect: the
\* registered callback stays, no factory is invoked by the call and nothing
\* is posted on the channel.
C14_SecondOnStartThrows ==
    [][(Len(onStartLog') > Len(onStartLog) /\ providerCallback)
          => /\ onStartLog' = Append(onStartLog, "threw")
             /\ providerCallback'
             /\ UNCHANGED <<factoryCalls, booting, initReplies, netVars, forkVars, dispatchVars>>]_vars

C14_Witness ==
    /\ \E n \in 1..Len(onStartLog) : onStartLog[n] = "threw"
    /\ factoryCalls = 1

C16_MarkingSingleUse ==
    \A n \in 1..Len(postedMsg) :
        \A a \in 1..Len(postedMsg[n].args) :
            wiredTransferables[postedMsg[n].args[a]] = <<>>

\* the buffers recorded for the values of a message, each an element of its
\* own, a value that occurs twice counted at its first occurrence
RECURSIVE RecordedBuffers(_, _)
RecordedBuffers(values, reg) ==
    IF values = <<>> THEN <<>>
    ELSE [n \in 1..Len(reg[Head(values)]) |-> Buffer(reg[Head(values)][n])]
            \o RecordedBuffers(Tail(values), [reg EXCEPT ![Head(values)] = <<>>])

\* C17: the transfer list given to the channel with a message that carries
\* marked values is exactly the buffers recorded for them, each as an element
\* of its own (the value itself when it was marked with no list), after the
\* reply port when the message is a call.
C17_TransferListExact ==
    \A n \in 1..Len(postedMsg) :
        postedMsg[n].transfer =
            (IF postedMsg[n].type = "exec" THEN <<Port>> ELSE <<>>)
                \o RecordedBuffers(invocation[n].args, invocation[n].reg)

\* C18: with calls in flight in both directions and replies in any order,
\* the promise of a call is settled at most once and only when the reply to
\* its own request has arrived on its port; no reply arrives on the port of
\* another call.
C18_RepliesPaired ==
    [][/\ \A c \in Calls :
            /\ execReplyFor'[c] \in {0, c}
            /\ callPromise[c] # "pending" => callPromise'[c] = callPromise[c]
            /\ callPromise'[c] # "pending" => execReplyFor'[c] = c
       /\ \A p \in PCalls :
            /\ pcallReplyFor'[p] \in {0, p}
            /\ pcallPromise[p] # "pending" => pcallPromise'[p] = pcallPromise[p]
            /\ pcallPromise'[p] # "pending" => pcallReplyFor'[p] = p]_vars

C18_Witness ==
    /\ callPromise[2] = "resolved" /\ callPc[1] = "executing"
    /\ pcallPromise[1] = "resolved"

\* the lines of a sequence of frames
Sources(frames) == [n \in 1..Len(frames) |-> frames[n].source]

\* C19: the error reconstructed from an error reply carries the remote
\* error's name and message, and its stack is the remote frames followed by
\* the caller's frames captured at the invocation, without the leading frame
\* of the proxy's trampoline.
C19_ErrorReconstructed ==
    \A n \in 1..Len(thrownErr) :
        LET err == reconciled[n].err
            local == reconciled[n].local
            callerFrames == IF local[1] = Trampoline THEN Tail(local) ELSE local
        IN /\ thrownErr[n].name = err.name
           /\ thrownErr[n].message = err.message
           /\ thrownErr[n].stack = Sources(err.stackFrames) \o Sources(callerFrames)

C19_Witness ==
    /\ Len(thrownErr) = 1
    /\ reconciled[1].local[1] = Trampoline
    /\ Len(reconciled[1].local) = MaxFrames + 1
    /\ Len(reconciled[1].err.stackFrames) = MaxFrames
    /\ thrownErr[1].stack = <<"method", "helper", "caller", "main">>

\* the Initiator has received the reply to an init message
InitReplyReceived ==
    \E i \in Connects :
        initReply[i] # "none" /\ connPc[i] \in {"done", "thrown", "rejected"}

\* C20: calls are gated until ready: no exec message of a proxy call of the
\* Initiator is posted before the init reply has been received, however the
\* calls interleave with the ping/init handshake.
C20_GatedUntilReady ==
    \A m \in posted : m.type = "exec" => InitReplyReceived

C20_Witness ==
    /\ \E c \in Calls : callIssuedIn[c] = Loading /\ Msg("exec", c, c) \in posted
    /\ \E c \in Calls : callIssuedIn[c] = Listening /\ Msg("exec", c, c) \in posted

TermPosted == {m \in posted : m.type = "term"}

\* C26: over any interleaving of kill invocations and proxy calls on one
\* handle at most one terminate message is ever posted to the worker.
C26_OneTerminate == Cardinality(TermPosted) <= 1

\* C27: once the terminate message has been posted no exec message is posted
\* to the worker afterwards, also not for a proxy call that was issued before
\* kill and had not posted its message yet.
C27_NoExecAfterTerminate ==
    [][\A m \in posted' \ posted : m.type = "exec" => TermPosted = {}]_vars

\* C21: marking with an item that is not transferable fails at once and
\* records nothing: for every value, markAsVTransferable throws the TypeError
\* when a listed item (the value itself when no item is listed) is not an
\* ArrayBuffer or ImageBitmap, and the registry is as before the call.
C21_MarkRejectsNonTransferable ==
    \A n \in 1..Len(marked) :
        LET items == IF marked[n].list = <<>> THEN <<marked[n].value>> ELSE marked[n].list IN
        (\E i \in 1..Len(items) : items[i] \notin Buffers)
            => marked[n].threw /\ wiredTransferables = marked[n].reg

\* the handshake's ping chain can still get an answer that counts: its last
\* ping or the reply to it is under way, or the chain may ping again
PingOutstanding ==
    \/ pingNo[1] < MaxPings
    \/ <<1, pingNo[1]>> \in pingReply
    \/ \E n \in 1..Len(inbox) : inbox[n] = Msg("ping", <<1, pingNo[1]>>, 0)

Without(existing, cb) ==
    LET Keep(x) == x # cb IN SelectSeq(existing, Keep)

\* C22: disposing the handle onWillTerminate returned unregisters exactly
\* that listener: a call of dispose() takes the handle's own callback out of
\* the array termination invokes and leaves every other callback in it, in
\* order; a further call on the same handle leaves the array as it is.
C22_DisposeExact ==
    [][\A l \in 1..Len(disposables) :
          disposables'[l] # disposables[l]
              => listeners' = Without(listeners, l)]_vars

\* the workers of all handles: the first handle's, then the forked ones'
Workers == <<worker>> \o [h \in 1..Len(forked) |-> forked[h].worker]

\* C23: fork returns a new handle in state Loading with a worker of its own,
\* built from the same locator, options and host surface, whatever the state
\* of the handle it is called on; the step leaves the first handle's state,
\* its calls in flight and every earlier handle as they were, and a later
\* step of one handle changes no other handle.
C23_ForkFresh ==
    [][/\ Len(forked') > Len(forked) =>
            LET new == forked'[Len(forked')] IN
            /\ new.workerState = Loading
            /\ \A n \in 1..Len(Workers) : Workers[n] # new.worker
            /\ new.scriptUrl = scriptUrl /\ new.workerInitOptions = workerInitOptions
            /\ new.host = hostAvailable
            /\ SubSeq(forked', 1, Len(forked)) = forked
            /\ UNCHANGED <<initiatorVars, callVars, killVars, netVars, providerVars, dispatchVars>>
       /\ \A h \in 1..Len(forked) :
            forked'[h] # forked[h] =>
                /\ \A g \in 1..Len(forked) : g # h => forked'[g] = forked[g]
                /\ UNCHANGED <<initiatorVars, callVars, killVars, netVars, providerVars, dispatchVars>>
       /\ <<initiatorVars, callVars, killVars, netVars, providerVars>>'
              # <<initiatorVars, callVars, killVars, netVars, providerVars>>
            => forked' = forked
      ]_vars

\* a handle forked from a killed first handle that had a call in flight,
\* and a second handle forked from the first fork, itself killed since
C23_Witness ==
    /\ workerState = Killed
    /\ Len(forked) = 2
    /\ forked[1].workerState = Killed /\ forked[2].workerState = Ready
    /\ callPc[1] # "idle"

\* the walk of a chain from the root surface: the named property of the
\* current value where it has one, else the property of that name on the root
RECURSIVE walkFromRoot(_, _, _)
walkFromRoot(surface, fnChain, cur) ==
    IF fnChain = <<>> THEN cur
    ELSE LET own == getProp(surface, cur, Head(fnChain))
             nxt == IF own \in {"undefined", "throw"}
                    THEN getProp(surface, "root", Head(fnChain)) ELSE own
         IN walkFromRoot(surface, Tail(fnChain), nxt)

\* C24: for every chain and every registered surface the dispatcher resolves
\* the target by walking the chain from the root surface, taking at each step
\* the property of the current value if defined and else the property of
\* that name on the root; a callable result is invoked with the root as
\* receiver and (when it returns) the reply is {ret}; a result that is not
\* callable, the empty chain included, gives {err} with a type error and
\* nothing is invoked.
C24_DispatchWalksFromRoot ==
    \A n \in 1..Len(dispatched) :
        LET d == dispatched[n]
            target == walkFromRoot(d.surface, d.fnChain, "root") IN
        IF isFunction(target)
        THEN /\ d.out.invoked = target /\ d.out.receiver = "root"
             /\ ~d.fnThrows => d.out.reply = "ret"
        ELSE /\ d.out.invoked = "none"
             /\ d.out.reply = "err" /\ d.out.name = "TypeError"
====
